---- MODULE Spec2Model ----
(***************************************************************************)
(* Model of two_dee_shooter/src/main.rs: the startup, event loop and       *)
(* teardown of main, and the physical-device / queue-family selection      *)
(* routines it calls.  The native libraries (GLFW, the Vulkan driver) are  *)
(* the environment: every answer they give is drawn nondeterministically   *)
(* at the call that asks for it.                                           *)
(***************************************************************************)
EXTENDS Integers, Sequences, FiniteSets, TLC

(* ---------------------------- bounds ----------------------------------- *)
\* most physical devices enumerate_physical_devices reports
MaxDevices == 2
\* most queue families a physical device reports
MaxFamilies == 2
\* most layers enumerate_instance_layer_properties reports
MaxLayers == 2

(* ------------------------ Option / Result ------------------------------ *)
\* Option<T> and Result<T, E>: the empty sequence is None / Err, a
\* one-element sequence is Some(v) / Ok(v).
None == <<>>
Some(v) == <<v>>
is_some(o) == o # <<>>
is_none(o) == o = <<>>
unwrap(o) == o[1]
Err == <<>>
Ok(v) == <<v>>
is_ok(r) == r # <<>>

SeqsUpTo(S, n) == UNION {[1..k -> S] : k \in 0..n}

(* --------------------------- constants --------------------------------- *)
REQUIRED_EXTENSIONS == {"VK_KHR_swapchain"}

required_validation_layers == <<"VK_LAYER_KHRONOS_validation">>

\* names the driver may report (all valid UTF-8, as Vulkan requires of
\* layer, extension and device names, so the to_str calls succeed)
LayerNames == {"VK_LAYER_KHRONOS_validation", "VK_LAYER_LUNARG_api_dump"}
ExtensionNames == {"VK_KHR_swapchain", "VK_KHR_maintenance1"}

(* ---------------------- what the driver reports ------------------------ *)
\* One queue family as the driver describes it: queue_flags (whether the
\* GRAPHICS bit is set) and the answer of
\* get_physical_device_surface_support for it: Err, Ok(FALSE) or Ok(TRUE).
QueueFamilies == [graphics : BOOLEAN, surface_support : {Err, Ok(FALSE), Ok(TRUE)}]

QueueFamilyLists == SeqsUpTo(QueueFamilies, MaxFamilies)

\* The answers to the queries of is_device_suitable lines 491-500.
DeviceAnswers ==
    [device_type : {"DISCRETE_GPU", "INTEGRATED_GPU"},
     geometry_shader : {0, 1},
     extensions : {Err} \cup {Ok(s) : s \in SUBSET ExtensionNames},
     capabilities : {Err, Ok("caps")},
     formats : {Err, Ok(<<>>), Ok(<<"B8G8R8A8_SRGB">>)},
     present_modes : {Err, Ok(<<>>), Ok(<<"FIFO">>)}]

(* ---------------------- QueueFamilyIndices ----------------------------- *)
is_complete(ix) == is_some(ix.graphics_family) /\ is_some(ix.present_family)

\* get_physical_device_surface_support(physical_device, index, surface):
\* the driver's answer for the family with that index.
get_physical_device_surface_support(queue_families, index) ==
    IF index + 1 \in DOMAIN queue_families
    THEN queue_families[index + 1].surface_support
    ELSE Err

\* The for loop of find_queue_families from list position pos on.  ix holds
\* graphics_family and present_family and, as a record of the pass, the
\* visits made: the index queried, whether the query failed and whether the
\* indices were complete after it.
RECURSIVE find_queue_families_loop(_, _, _, _)
find_queue_families_loop(queue_families, pos, current_family_index, ix) ==
    IF pos > Len(queue_families) THEN ix
    ELSE LET queue_family == queue_families[pos]
             support == get_physical_device_surface_support(queue_families, current_family_index)
             g == IF queue_family.graphics THEN Some(current_family_index)
                  ELSE ix.graphics_family
             p == IF is_ok(support) THEN Some(current_family_index)
                  ELSE ix.present_family
             done == is_some(g) /\ is_some(p)
             nx == [graphics_family |-> g, present_family |-> p,
                    visits |-> Append(ix.visits,
                                 [index |-> current_family_index,
                                  query_failed |-> ~is_ok(support),
                                  complete |-> done])]
         IN IF done THEN nx
            ELSE find_queue_families_loop(queue_families, pos + 1, current_family_index + 1, nx)

\* variant: the loop without the break of lines 480-482
RECURSIVE find_queue_families_loop_no_break(_, _, _, _)
find_queue_families_loop_no_break(queue_families, pos, current_family_index, ix) ==
    IF pos > Len(queue_families) THEN ix
    ELSE LET queue_family == queue_families[pos]
             support == get_physical_device_surface_support(queue_families, current_family_index)
             g == IF queue_family.graphics THEN Some(current_family_index)
                  ELSE ix.graphics_family
             p == IF is_ok(support) THEN Some(current_family_index)
                  ELSE ix.present_family
             nx == [graphics_family |-> g, present_family |-> p,
                    visits |-> Append(ix.visits,
                                 [index |-> current_family_index,
                                  query_failed |-> ~is_ok(support),
                                  complete |-> is_some(g) /\ is_some(p)])]
         IN find_queue_families_loop_no_break(queue_families, pos + 1,
                                              current_family_index + 1, nx)

find_queue_families_no_break(queue_families) ==
    find_queue_families_loop_no_break(queue_families, 1, 0,
        [graphics_family |-> None, present_family |-> None, visits |-> <<>>])

\* variant: current_family_index starts at 1 instead of 0
find_queue_families_from_one(queue_families) ==
    find_queue_families_loop(queue_families, 1, 1,
        [graphics_family |-> None, present_family |-> None, visits |-> <<>>])

find_queue_families(queue_families) ==
    find_queue_families_loop(queue_families, 1, 0,
        [graphics_family |-> None, present_family |-> None, visits |-> <<>>])

(* ------------------------ is_device_suitable --------------------------- *)
\* check_device_extension_support after the unwrap of line 523: every
\* available extension is removed from a copy of REQUIRED_EXTENSIONS and
\* the copy must end up empty.
check_device_extension_support(available_device_extensions) ==
    (REQUIRED_EXTENSIONS \ available_device_extensions) = {}

\* query_swapchain_support: three unwraps in field order; the name of the
\* first query that fails, None when all three succeed.
query_swapchain_support_failure(a) ==
    IF ~is_ok(a.capabilities) THEN Some("get_physical_device_surface_capabilities")
    ELSE IF ~is_ok(a.formats) THEN Some("get_physical_device_surface_formats")
    ELSE IF ~is_ok(a.present_modes) THEN Some("get_physical_device_surface_present_modes")
    ELSE None

\* Lines 491-500 of is_device_suitable on the driver's answers a: the
\* locals it has computed when it reaches the selection criteria, or the
\* query whose unwrap panicked.
is_device_suitable_locals(a) ==
    LET extensions_failed == ~is_ok(a.extensions)
        extensions_supported ==
            IF extensions_failed THEN FALSE
            ELSE check_device_extension_support(unwrap(a.extensions))
        swapchain_failure ==
            IF extensions_supported THEN query_swapchain_support_failure(a) ELSE None
        swapchain_adequate ==
            IF extensions_supported /\ is_none(swapchain_failure)
            THEN unwrap(a.formats) # <<>> /\ unwrap(a.present_modes) # <<>>
            ELSE FALSE
    IN [panic |-> IF extensions_failed
                  THEN Some("enumerate_device_extension_properties")
                  ELSE swapchain_failure,
        device_type |-> a.device_type,
        geometry_shader |-> a.geometry_shader,
        extensions_supported |-> extensions_supported,
        swapchain_queried |-> extensions_supported,
        swapchain_adequate |-> swapchain_adequate]

\* The first operand of the && chain of lines 505-509; find_queue_families
\* is called only when it is true.
device_kind_accepted(l) ==
    l.device_type = "DISCRETE_GPU" /\ l.geometry_shader > 0

\* variant: the criteria without swapchain_adequate
selection_criteria_without_swapchain(l, complete) ==
    device_kind_accepted(l) /\ complete /\ l.extensions_supported

\* selection_criteria of lines 505-509, complete being
\* find_queue_families(...).is_complete().
selection_criteria(l, complete) ==
    device_kind_accepted(l) /\ complete /\ l.extensions_supported /\ l.swapchain_adequate

\* is_device_suitable on a device d = [answers, queue_families]: whether it
\* panicked, the value it returned otherwise, whether it queried swapchain
\* support and the find_queue_families pass it made, if any.
is_device_suitable(d) ==
    LET l == is_device_suitable_locals(d.answers)
        called == is_none(l.panic) /\ device_kind_accepted(l)
        scan == find_queue_families(d.queue_families)
    IN [panic |-> l.panic,
        value |-> is_none(l.panic) /\ selection_criteria(l, called /\ is_complete(scan)),
        swapchain_queried |-> l.swapchain_queried,
        scan |-> IF called THEN Some(scan) ELSE None]

(* ------------------------------ state ---------------------------------- *)
VARIABLES
    pc,                        \* the statement of main about to run
    handles,                   \* the native handles that currently exist
    events,                    \* what main has done to native handles, in order
    failed,                    \* the calls that have reported a failure
    panic_message,             \* the message of the panic that ended main
    should_close,              \* the window's close flag (glfwWindowShouldClose)
    physical_devices,          \* the handles enumerate_physical_devices returned
    next_device,               \* position of the selection loop in physical_devices
    locals,                    \* locals of the is_device_suitable call in progress
    verdicts,                  \* what is_device_suitable returned, device by device
    selected_physical_device,  \* Option: the handle and the driver's queue families for it
    last_scan,                 \* Option: the find_queue_families pass of the latest call
    indices,                   \* QueueFamilyIndices of line 203
    VK_DEVICE,                 \* Option: the logical device and what it was created on
    device_presentation_queue, \* Option: family index of the queue of line 267
    device,                    \* function harness: the device under test
    result,                    \* function harness: what the applied function returned
    extensions_call            \* Option: the locals of a build_extensions call

vars == <<pc, handles, events, failed, panic_message, should_close, physical_devices,
          next_device, locals, verdicts, selected_physical_device, last_scan, indices,
          VK_DEVICE, device_presentation_queue, device, result, extensions_call>>

selection == <<physical_devices, next_device, locals, verdicts,
               selected_physical_device, last_scan>>
later == <<indices, VK_DEVICE, device_presentation_queue>>
harness == <<device, result, extensions_call>>

(* ------------------------- the order of main --------------------------- *)
\* variant: the surface is created before the window
StartupSequence_surface_first ==
    <<"glfwInit", "enumerate_instance_layer_properties", "create_instance",
      "setup_debug_messenger", "enumerate_physical_devices", "glfwCreateWindowSurface",
      "glfwCreateWindow", "select_physical_device", "find_queue_families",
      "create_device", "get_device_queue", "event_loop">>

StartupSequence ==
    <<"glfwInit", "enumerate_instance_layer_properties", "create_instance",
      "setup_debug_messenger", "enumerate_physical_devices", "glfwCreateWindow",
      "glfwCreateWindowSurface", "select_physical_device", "find_queue_families",
      "create_device", "get_device_queue", "event_loop">>

\* variant: the instance is destroyed before the surface
TeardownSequence_instance_first ==
    <<"destroy_device", "destroy_debug_utils_messenger", "destroy_instance",
      "destroy_surface", "glfwDestroyWindow", "glfwTerminate">>

\* variant: the surface is never destroyed
TeardownSequence_surface_leaked ==
    <<"destroy_device", "destroy_debug_utils_messenger",
      "destroy_instance", "glfwDestroyWindow", "glfwTerminate">>

TeardownSequence ==
    <<"destroy_device", "destroy_debug_utils_messenger", "destroy_surface",
      "destroy_instance", "glfwDestroyWindow", "glfwTerminate">>

MainSequence == StartupSequence \o TeardownSequence \o <<"exited">>

\* the statement that follows statement p
after(p) ==
    MainSequence[1 + CHOOSE i \in 1..Len(MainSequence) : MainSequence[i] = p]

Create(h) == [op |-> "create", what |-> h]
Destroy(h) == [op |-> "destroy", what |-> h]

\* panic!/expect/unwrap: main ends at once, nothing is released
Panic(call, message) ==
    /\ pc' = "panicked"
    /\ failed' = failed \cup {call}
    /\ panic_message' = message
    /\ UNCHANGED <<handles, events, should_close>>

\* a call that creates handle h or panics with message
CreateStep(label, call, h, message) ==
    /\ pc = label
    /\ \E ok \in BOOLEAN :
         IF ok
         THEN /\ pc' = after(label)
              /\ handles' = handles \cup {h}
              /\ events' = Append(events, Create(h))
              /\ UNCHANGED <<failed, panic_message, should_close>>
         ELSE Panic(call, message)

\* a call that destroys handle h
DestroyStep(label, h) ==
    /\ pc = label
    /\ pc' = after(label)
    /\ handles' = handles \ {h}
    /\ events' = Append(events, Destroy(h))
    /\ UNCHANGED <<failed, panic_message, should_close>>

(* ------------------------------ startup -------------------------------- *)
Init ==
    /\ pc = MainSequence[1]
    /\ handles = {}
    /\ events = <<>>
    /\ failed = {}
    /\ panic_message = ""
    /\ should_close = 0
    /\ physical_devices = <<>>
    /\ next_device = 1
    /\ locals = None
    /\ verdicts = <<>>
    /\ selected_physical_device = None
    /\ last_scan = None
    /\ indices = None
    /\ VK_DEVICE = None
    /\ device_presentation_queue = None
    /\ device = None
    /\ result = None
    /\ extensions_call = None

\* lines 31-33
GlfwInit ==
    /\ CreateStep("glfwInit", "glfwInit", "glfw", "Failed to initialize GLFW.")
    /\ UNCHANGED <<selection, later, harness>>

\* lines 78-92: every required layer is among the available ones
required_layers_supported(available_layers) ==
    \A r \in 1..Len(required_validation_layers) :
        \E a \in 1..Len(available_layers) :
            available_layers[a] = required_validation_layers[r]

\* lines 76-92
EnumerateInstanceLayerProperties ==
    /\ pc = "enumerate_instance_layer_properties"
    /\ \E available_layers \in {Err} \cup {Ok(l) : l \in SeqsUpTo(LayerNames, MaxLayers)} :
         IF ~is_ok(available_layers)
         THEN Panic("enumerate_instance_layer_properties",
                    "Failed to retrieve available layers.")
         ELSE IF ~required_layers_supported(unwrap(available_layers))
         THEN Panic("required_validation_layer",
                    "The required validation layer could not be found in the list of available layers.")
         ELSE /\ pc' = after("enumerate_instance_layer_properties")
              /\ UNCHANGED <<handles, events, failed, panic_message, should_close>>
    /\ UNCHANGED <<selection, later, harness>>

\* line 135
CreateInstance ==
    /\ CreateStep("create_instance", "create_instance", "instance",
                  "Failed to create Vulkan instance.")
    /\ UNCHANGED <<selection, later, harness>>

\* lines 140-141, 569-578
SetupDebugMessenger ==
    /\ CreateStep("setup_debug_messenger", "create_debug_utils_messenger",
                  "debug_messenger", "Failed to create Debug Utils Messenger")
    /\ UNCHANGED <<selection, later, harness>>

\* line 144
EnumeratePhysicalDevices ==
    /\ pc = "enumerate_physical_devices"
    /\ \E r \in {Err} \cup {Ok(n) : n \in 0..MaxDevices} :
         IF ~is_ok(r)
         THEN /\ Panic("enumerate_physical_devices", "Failed to retrieve physical devices.")
              /\ UNCHANGED physical_devices
         ELSE /\ pc' = after("enumerate_physical_devices")
              /\ physical_devices' = [i \in 1..unwrap(r) |-> i]
              /\ UNCHANGED <<handles, events, failed, panic_message, should_close>>
    /\ UNCHANGED <<next_device, locals, verdicts, selected_physical_device, last_scan>>
    /\ UNCHANGED <<later, harness>>

\* lines 590-595: get_latest_glfw_error_description hands a pointer GLFW
\* owns to CString::from_raw, which is undefined behaviour: the panic
\* message is printed with the description, or the process crashes while
\* building or freeing it
WindowFailureOutcomes ==
    {"Failed to create window", "crashed in get_latest_glfw_error_description"}

\* lines 148-165
GlfwCreateWindow ==
    /\ \E outcome \in WindowFailureOutcomes :
          CreateStep("glfwCreateWindow", "glfwCreateWindow", "window", outcome)
    /\ UNCHANGED <<selection, later, harness>>

\* lines 172-185
GlfwCreateWindowSurface ==
    /\ CreateStep("glfwCreateWindowSurface", "glfwCreateWindowSurface", "surface",
                  "Failed to create Window Surface!")
    /\ UNCHANGED <<selection, later, harness>>

(* ----------------------- physical-device selection --------------------- *)
\* variant: the first suitable device is kept
select_device_first(selected, suitable, candidate) ==
    IF suitable /\ is_none(selected) THEN Some(candidate) ELSE selected

\* the body of the loop of lines 189-193
select_device(selected, suitable, candidate) ==
    IF suitable THEN Some(candidate) ELSE selected

\* what a find_queue_families pass leaves in last_scan
ScanRecord(queue_families, scan) ==
    [families |-> Len(queue_families),
     visits |-> [v \in DOMAIN scan.visits |->
                   [index |-> scan.visits[v].index, complete |-> scan.visits[v].complete]]]

\* the failed surface-support queries of a pass
ScanFailures(scan) ==
    IF \E v \in DOMAIN scan.visits : scan.visits[v].query_failed
    THEN {"get_physical_device_surface_support"}
    ELSE {}

\* lines 189-190 and 491-500: the loop takes the next device and
\* is_device_suitable queries its properties, features, extensions and,
\* when the extensions are supported, its swapchain support
IsDeviceSuitableQueries ==
    /\ pc = "select_physical_device"
    /\ next_device <= Len(physical_devices)
    /\ is_none(locals)
    /\ \E a \in DeviceAnswers :
         LET l == is_device_suitable_locals(a)
         IN IF is_some(l.panic)
            THEN /\ Panic(unwrap(l.panic), "called Result::unwrap() on an Err value")
                 /\ UNCHANGED locals
            ELSE /\ locals' = Some(l)
                 /\ events' = Append(events, [op |-> "is_device_suitable",
                                              what |-> physical_devices[next_device]])
                 /\ UNCHANGED <<pc, handles, failed, panic_message, should_close>>
    /\ last_scan' = None
    /\ UNCHANGED <<physical_devices, next_device, verdicts, selected_physical_device>>
    /\ UNCHANGED <<later, harness>>

\* lines 505-516 and 190-192: the selection criteria (with the
\* find_queue_families pass they make for an accepted kind of device), and
\* the loop body's assignment
IsDeviceSuitableCriteria ==
    /\ pc = "select_physical_device"
    /\ is_some(locals)
    /\ LET l == unwrap(locals)
           handle == physical_devices[next_device]
       IN IF device_kind_accepted(l)
          THEN \E queue_families \in QueueFamilyLists :
                 LET scan == find_queue_families(queue_families)
                     suitable == selection_criteria(l, is_complete(scan))
                 IN /\ verdicts' = Append(verdicts, [device |-> handle, suitable |-> suitable])
                    /\ selected_physical_device' =
                          select_device(selected_physical_device, suitable,
                                        [handle |-> handle, queue_families |-> queue_families])
                    /\ last_scan' = Some(ScanRecord(queue_families, scan))
                    /\ failed' = failed \cup ScanFailures(scan)
          ELSE /\ verdicts' = Append(verdicts, [device |-> handle,
                                                  suitable |-> selection_criteria(l, FALSE)])
               /\ selected_physical_device' =
                     select_device(selected_physical_device, selection_criteria(l, FALSE),
                                   [handle |-> handle, queue_families |-> <<>>])
               /\ UNCHANGED <<last_scan, failed>>
    /\ next_device' = next_device + 1
    /\ locals' = None
    /\ UNCHANGED <<pc, handles, events, panic_message, should_close, physical_devices>>
    /\ UNCHANGED <<later, harness>>

\* lines 195-197, reached when the loop has run out of devices
CheckSelected ==
    /\ pc = "select_physical_device"
    /\ next_device > Len(physical_devices)
    /\ IF is_none(selected_physical_device)
       THEN Panic("select_physical_device", "Failed to select a physical device!")
       ELSE /\ pc' = after("select_physical_device")
            /\ UNCHANGED <<handles, events, failed, panic_message, should_close>>
    /\ UNCHANGED <<selection, later, harness>>

\* lines 203-207
FindQueueFamilies ==
    /\ pc = "find_queue_families"
    /\ LET queue_families == unwrap(selected_physical_device).queue_families
           scan == find_queue_families(queue_families)
       IN /\ last_scan' = Some(ScanRecord(queue_families, scan))
          /\ IF is_complete(scan)
             THEN /\ indices' = Some([graphics_family |-> scan.graphics_family,
                                      present_family |-> scan.present_family])
                  /\ pc' = after("find_queue_families")
                  /\ failed' = failed \cup ScanFailures(scan)
                  /\ UNCHANGED <<handles, events, panic_message, should_close>>
             ELSE /\ Panic("unwrap", "called Option::unwrap() on a None value")
                  /\ UNCHANGED indices
    /\ UNCHANGED <<physical_devices, next_device, locals, verdicts, selected_physical_device>>
    /\ UNCHANGED <<VK_DEVICE, device_presentation_queue, harness>>

\* lines 205-263
CreateDevice ==
    /\ CreateStep("create_device", "create_device", "device",
                  "Failed to create physical device")
    /\ VK_DEVICE' =
          IF pc' = "panicked" THEN VK_DEVICE
          ELSE Some([physical_device |-> unwrap(selected_physical_device).handle,
                     queue_family_indices |-> {unwrap(unwrap(indices).graphics_family),
                                               unwrap(unwrap(indices).present_family)}])
    /\ UNCHANGED <<selection, indices, device_presentation_queue, harness>>

\* line 267
GetDeviceQueue ==
    /\ pc = "get_device_queue"
    /\ pc' = after("get_device_queue")
    /\ device_presentation_queue' = Some(unwrap(unwrap(indices).present_family))
    /\ events' = Append(events, [op |-> "get_device_queue",
                                 what |-> unwrap(unwrap(indices).present_family)])
    /\ UNCHANGED <<handles, failed, panic_message, should_close>>
    /\ UNCHANGED <<selection, indices, VK_DEVICE, harness>>

(* ----------------------------- event loop ------------------------------ *)
\* variant: the loop runs while the flag is set
while_condition_inverted(close_flag) == close_flag # 0

\* line 269: glfwWindowShouldClose(main_window) == 0
while_condition(close_flag) == close_flag = 0

\* lines 269-270: the condition holds and glfwPollEvents processes the
\* pending events, among them possibly a close request
PollEvents ==
    /\ pc = "event_loop"
    /\ while_condition(should_close)
    /\ \E close_requested \in BOOLEAN :
         should_close' = IF close_requested THEN 1 ELSE should_close
    /\ UNCHANGED <<pc, handles, events, failed, panic_message>>
    /\ UNCHANGED <<selection, later, harness>>

\* line 269: the condition fails and the loop is left
LeaveEventLoop ==
    /\ pc = "event_loop"
    /\ ~while_condition(should_close)
    /\ pc' = after("event_loop")
    /\ events' = Append(events, [op |-> "leave_event_loop", what |-> should_close])
    /\ UNCHANGED <<handles, failed, panic_message, should_close>>
    /\ UNCHANGED <<selection, later, harness>>

(* ------------------------------ teardown ------------------------------- *)
\* line 274
DestroyDevice ==
    /\ DestroyStep("destroy_device", "device")
    /\ UNCHANGED <<selection, later, harness>>

\* line 279
DestroyDebugUtilsMessenger ==
    /\ DestroyStep("destroy_debug_utils_messenger", "debug_messenger")
    /\ UNCHANGED <<selection, later, harness>>

\* line 282
DestroySurface ==
    /\ DestroyStep("destroy_surface", "surface")
    /\ UNCHANGED <<selection, later, harness>>

\* line 285
DestroyInstance ==
    /\ DestroyStep("destroy_instance", "instance")
    /\ UNCHANGED <<selection, later, harness>>

\* line 287
GlfwDestroyWindow ==
    /\ DestroyStep("glfwDestroyWindow", "window")
    /\ UNCHANGED <<selection, later, harness>>

\* line 291
GlfwTerminate ==
    /\ DestroyStep("glfwTerminate", "glfw")
    /\ UNCHANGED <<selection, later, harness>>

Next ==
    \/ GlfwInit
    \/ EnumerateInstanceLayerProperties
    \/ CreateInstance
    \/ SetupDebugMessenger
    \/ EnumeratePhysicalDevices
    \/ GlfwCreateWindow
    \/ GlfwCreateWindowSurface
    \/ IsDeviceSuitableQueries
    \/ IsDeviceSuitableCriteria
    \/ CheckSelected
    \/ FindQueueFamilies
    \/ CreateDevice
    \/ GetDeviceQueue
    \/ PollEvents
    \/ LeaveEventLoop
    \/ DestroyDevice
    \/ DestroyDebugUtilsMessenger
    \/ DestroySurface
    \/ DestroyInstance
    \/ GlfwDestroyWindow
    \/ GlfwTerminate

Spec == Init /\ [][Next]_vars

\* what main runs once the loop condition of line 269 fails
Shutdown ==
    \/ LeaveEventLoop
    \/ DestroyDevice
    \/ DestroyDebugUtilsMessenger
    \/ DestroySurface
    \/ DestroyInstance
    \/ GlfwDestroyWindow
    \/ GlfwTerminate

\* main is one sequential thread and none of its shutdown statements
\* blocks: the one that is next does run
FairSpec == Spec /\ WF_vars(Shutdown)

(* ------------------- the selection routines on their own --------------- *)
\* a physical device as the driver describes it
Devices == [answers : DeviceAnswers, queue_families : QueueFamilyLists]

FnInit ==
    /\ pc = "fn_call"
    /\ device \in {Some(d) : d \in Devices}
    /\ result = None
    /\ extensions_call = None
    /\ handles = {}
    /\ events = <<>>
    /\ failed = {}
    /\ panic_message = ""
    /\ should_close = 0
    /\ physical_devices = <<>>
    /\ next_device = 1
    /\ locals = None
    /\ verdicts = <<>>
    /\ selected_physical_device = None
    /\ last_scan = None
    /\ indices = None
    /\ VK_DEVICE = None
    /\ device_presentation_queue = None

\* lines 457-488 applied to the device under test
ApplyFindQueueFamilies ==
    /\ pc = "fn_call"
    /\ pc' = "fn_return"
    /\ result' = Some([fn |-> "find_queue_families",
                       value |-> find_queue_families(unwrap(device).queue_families)])
    /\ UNCHANGED <<handles, events, failed, panic_message, should_close, device,
                   extensions_call>>
    /\ UNCHANGED <<selection, later>>

\* lines 490-516 applied to the device under test
ApplyIsDeviceSuitable ==
    /\ pc = "fn_call"
    /\ pc' = "fn_return"
    /\ result' = Some([fn |-> "is_device_suitable",
                       value |-> is_device_suitable(unwrap(device))])
    /\ UNCHANGED <<handles, events, failed, panic_message, should_close, device,
                   extensions_call>>
    /\ UNCHANGED <<selection, later>>

FnNext ==
    \/ ApplyFindQueueFamilies
    \/ ApplyIsDeviceSuitable

FnSpec == FnInit /\ [][FnNext]_vars

(* ======================= properties of main ============================ *)
NativeHandles == {"glfw", "instance", "debug_messenger", "window", "surface", "device"}

\* positions in events at which handle h was created / destroyed
CreatedAt(h) == {i \in DOMAIN events : events[i].op = "create" /\ events[i].what = h}
DestroyedAt(h) == {i \in DOMAIN events : events[i].op = "destroy" /\ events[i].what = h}
IsCreated(h) == CreatedAt(h) # {}
IsDestroyed(h) == DestroyedAt(h) # {}
Earliest(S) == CHOOSE i \in S : \A j \in S : i <= j

\* a created before b, and both since destroyed
CreatedBeforeBothDestroyed(a, b) ==
    /\ IsCreated(a) /\ IsCreated(b) /\ IsDestroyed(a) /\ IsDestroyed(b)
    /\ Earliest(CreatedAt(a)) < Earliest(CreatedAt(b))

\* C1 as stated: teardown is strictly the reverse of creation: whenever a
\* was created before b and both are destroyed, b was destroyed before a.
C1_StrictReverseTeardown ==
    \A a, b \in NativeHandles :
        CreatedBeforeBothDestroyed(a, b)
            => Earliest(DestroyedAt(b)) < Earliest(DestroyedAt(a))

\* the pairs (a, b), a created before b, that main destroys in creation order
DestroyedInCreationOrder ==
    {<<"debug_messenger", "window">>, <<"debug_messenger", "surface">>,
     <<"instance", "window">>}

\* C1 amended: the handles are destroyed in the order logical device, debug
\* messenger, surface, instance, window, GLFW library: the reverse of the
\* creation order except that the debug messenger is destroyed before the
\* window and the surface, and the instance before the window.
C1_TeardownOrder ==
    \A a, b \in NativeHandles :
        CreatedBeforeBothDestroyed(a, b)
            => IF <<a, b>> \in DestroyedInCreationOrder
               THEN Earliest(DestroyedAt(a)) < Earliest(DestroyedAt(b))
               ELSE Earliest(DestroyedAt(b)) < Earliest(DestroyedAt(a))

\* all six handles have been created and destroyed
C1_TornDown == \A h \in NativeHandles : IsCreated(h) /\ IsDestroyed(h)

\* C2 as stated: every failure of a startup step is fatal: once any call of
\* the startup has failed, main has panicked (and so runs no later step).
C2_EveryFailureFatal == failed # {} => pc = "panicked"

CloseObservedBefore(i) ==
    \E j \in 1..(i - 1) : events[j].op = "leave_event_loop" /\ events[j].what # 0

NoReleaseBeforeClose ==
    \A i \in DOMAIN events : events[i].op = "destroy" => CloseObservedBefore(i)

ReleasedExactlyOnce ==
    \A h \in NativeHandles : IsCreated(h) => Cardinality(DestroyedAt(h)) = 1

C4_EventLoop ==
    /\ [][(pc = "event_loop" /\ should_close = 0)
            => (pc' = "event_loop" /\ handles' = handles /\ events' = events)]_vars
    /\ [][(pc = "event_loop" /\ should_close # 0)
            => (pc' = "destroy_device" /\ handles' = handles)]_vars
    /\ ((pc = "event_loop" /\ should_close # 0) ~> (pc = "exited"))

\* a poll has observed the close request while main is in the loop
C4_CloseRequested == pc = "event_loop" /\ should_close # 0

\* the order in which main creates what it creates
CreationOrder ==
    <<"glfw", "instance", "debug_messenger", "window", "surface", "device",
      "presentation_queue">>

IsMaking(e) == e.op \in {"create", "get_device_queue"}
MadeName(e) == IF e.op = "create" THEN e.what ELSE "presentation_queue"
Made == LET m == SelectSeq(events, IsMaking) IN [i \in DOMAIN m |-> MadeName(m[i])]

\* handle h exists just before event i
ExistsBefore(h, i) ==
    /\ \E j \in 1..(i - 1) : events[j].op = "create" /\ events[j].what = h
    /\ ~\E j \in 1..(i - 1) : events[j].op = "destroy" /\ events[j].what = h

\* what each step is derived from
DerivedFrom(e) ==
    IF e.op = "create"
    THEN CASE e.what = "debug_messenger" -> {"instance"}
           [] e.what = "surface" -> {"instance", "window"}
           [] e.what = "device" -> {"instance"}
           [] OTHER -> {}
    ELSE IF e.op = "is_device_suitable" THEN {"instance", "surface"}
    ELSE IF e.op = "get_device_queue" THEN {"device"}
    ELSE {}

\* C5: the handles are created in one fixed order and each step runs only
\* when what it is derived from exists: messenger and surface after the
\* instance, surface after the window, suitability checks after the
\* surface, the logical device after a selected physical device, the queue
\* retrieval after the logical device.
C5_CreationOrder ==
    /\ Len(Made) <= Len(CreationOrder)
    /\ \A i \in DOMAIN Made : Made[i] = CreationOrder[i]
    /\ \A i \in DOMAIN events : \A h \in DerivedFrom(events[i]) : ExistsBefore(h, i)
    /\ IsCreated("device") => is_some(selected_physical_device)

\* startup is complete: everything has been created, the queue retrieved
C5_StartupComplete == pc = "event_loop" /\ Made = CreationOrder

\* the devices handed to is_device_suitable so far, in call order
Evaluated ==
    LET c == SelectSeq(events, LAMBDA e : e.op = "is_device_suitable")
    IN [i \in DOMAIN c |-> c[i].what]

\* the selection loop has run to its end
LoopFinished ==
    /\ IsCreated("surface")
    /\ pc # "select_physical_device"
    /\ Len(verdicts) = Len(physical_devices)

\* a find_queue_families pass over a list of n families is one forward
\* pass: indices 0, 1, 2, ... in order, nothing after the first index at
\* which the indices are complete, and the whole list when none is
ForwardPass(visits, n) ==
    /\ Len(visits) <= n
    /\ \A j \in DOMAIN visits : visits[j].index = j - 1
    /\ \A j \in DOMAIN visits : j < Len(visits) => ~visits[j].complete
    /\ (visits = <<>> \/ ~visits[Len(visits)].complete) => Len(visits) = n

\* C6: the selection loop evaluates each enumerated device once, in
\* enumeration order, and every find_queue_families pass visits the family
\* indices 0, 1, 2, ... once each, in order, and stops at the first index
\* at which both graphics_family and present_family are set.
C6_SinglePass ==
    /\ Len(Evaluated) <= Len(physical_devices)
    /\ \A i \in DOMAIN Evaluated : Evaluated[i] = physical_devices[i]
    /\ \A i \in DOMAIN verdicts : verdicts[i].device = physical_devices[i]
    /\ Len(verdicts) <= Len(Evaluated) /\ Len(Evaluated) <= Len(verdicts) + 1
    /\ LoopFinished => Evaluated = physical_devices
    /\ is_some(last_scan) => ForwardPass(unwrap(last_scan).visits, unwrap(last_scan).families)

\* two devices have been evaluated and the latest pass stopped at the
\* second family of a longer-than-one list
C6_TwoDevicesTwoFamilies ==
    /\ Len(verdicts) = 2
    /\ is_some(last_scan)
    /\ Len(unwrap(last_scan).visits) = 2
    /\ unwrap(last_scan).visits[2].complete

FailedToSelect == "Failed to select a physical device!"

NoneSuitable == \A i \in DOMAIN verdicts : ~verdicts[i].suitable

LastSuitable ==
    CHOOSE i \in DOMAIN verdicts :
        verdicts[i].suitable /\ \A j \in DOMAIN verdicts : verdicts[j].suitable => j <= i

\* C7: main panics with "Failed to select a physical device!" exactly when
\* the selection loop has finished and is_device_suitable returned true for
\* no enumerated device; otherwise the selected device is the last one for
\* which it returned true, and the logical device is created on it.
C7_Selection ==
    /\ panic_message = FailedToSelect <=> (LoopFinished /\ NoneSuitable)
    /\ NoneSuitable <=> is_none(selected_physical_device)
    /\ ~NoneSuitable =>
          unwrap(selected_physical_device).handle = verdicts[LastSuitable].device
    /\ is_some(VK_DEVICE) =>
          /\ ~NoneSuitable
          /\ unwrap(VK_DEVICE).physical_device = verdicts[LastSuitable].device

\* two devices are both suitable and the logical device has been created
\* on the second
C7_SecondOverridesFirst ==
    /\ Len(verdicts) = 2
    /\ verdicts[1].suitable /\ verdicts[2].suitable
    /\ is_some(VK_DEVICE)
    /\ unwrap(VK_DEVICE).physical_device = physical_devices[2]

(* ================= properties of the selection routines ================ *)
Returned(fn) == is_some(result) /\ unwrap(result).fn = fn
Value == unwrap(result).value
Families == unwrap(device).queue_families
Answers == unwrap(device).answers

\* what the claim lists, read off the driver's answers
IsDiscreteGpu == Answers.device_type = "DISCRETE_GPU"
HasGeometryShader == Answers.geometry_shader # 0
RequiredExtensionsSupported ==
    is_ok(Answers.extensions) /\ REQUIRED_EXTENSIONS \subseteq unwrap(Answers.extensions)
HasSurfaceFormat == is_ok(Answers.formats) /\ Len(unwrap(Answers.formats)) >= 1
HasPresentMode == is_ok(Answers.present_modes) /\ Len(unwrap(Answers.present_modes)) >= 1

\* C8: is_device_suitable, when it returns, returns true exactly when the
\* device is a discrete GPU with geometry shaders, its queue families are
\* complete, the required extensions are supported and its swapchain
\* support has a surface format and a present mode; swapchain support is
\* queried only when the required extensions are supported.
C8_IsDeviceSuitable ==
    Returned("is_device_suitable") =>
        /\ is_none(Value.panic) =>
              (Value.value <=>
                  /\ IsDiscreteGpu
                  /\ HasGeometryShader
                  /\ is_complete(find_queue_families(Families))
                  /\ RequiredExtensionsSupported
                  /\ HasSurfaceFormat
                  /\ HasPresentMode)
        /\ Value.swapchain_queried => RequiredExtensionsSupported
        /\ is_some(Value.panic) => ~Value.value

\* is_device_suitable has returned true
C8_Suitable == Returned("is_device_suitable") /\ is_none(Value.panic) /\ Value.value

\* C9 as stated: when find_queue_families returns present_family = Some(i),
\* queue family i supports presentation to the surface.
C9_PresentFamilyPresents ==
    (Returned("find_queue_families") /\ is_some(Value.present_family)) =>
        /\ unwrap(Value.present_family) + 1 \in DOMAIN Families
        /\ Families[unwrap(Value.present_family) + 1].surface_support = Ok(TRUE)

HasGraphicsFamily == \E i \in DOMAIN Families : Families[i].graphics
HasAcceptedPresentFamily == \E i \in DOMAIN Families : is_ok(Families[i].surface_support)

\* C10: when find_queue_families returns graphics_family = Some(g), g is
\* the list position of a family with the GRAPHICS flag (the running index
\* is the position of the family examined), and the result is complete
\* exactly when the device has a GRAPHICS family and a family accepted as
\* present-capable.
C10_FindQueueFamilies ==
    Returned("find_queue_families") =>
        /\ is_some(Value.graphics_family) =>
              /\ unwrap(Value.graphics_family) + 1 \in DOMAIN Families
              /\ Families[unwrap(Value.graphics_family) + 1].graphics
        /\ \A j \in DOMAIN Value.visits : Value.visits[j].index = j - 1
        /\ is_complete(Value) <=> (HasGraphicsFamily /\ HasAcceptedPresentFamily)

\* the pass found its GRAPHICS family at the second list position
C10_GraphicsAtSecond ==
    /\ Returned("find_queue_families")
    /\ is_complete(Value)
    /\ Value.graphics_family = Some(1)

(* ========================== build_extensions =========================== *)
\* most names glfwGetRequiredInstanceExtensions reports
MaxGlfwExtensions == 3

\* names GLFW may report
GlfwExtensionNames == {"VK_KHR_surface", "VK_KHR_win32_surface", "VK_KHR_xcb_surface"}

\* what a read of *glfw_extensions past the end of GLFW's array may find.
\* The read is undefined behaviour: the process crashes, or the stray
\* pointer leads to some bytes, valid UTF-8 or not.
StrayBytes == {"stray bytes", "stray bytes \\xFF"}
InvalidUtf8 == {"stray bytes \\xFF"}

\* line 548, String::from_utf8_lossy(..).to_string(): valid UTF-8 is kept,
\* an invalid sequence becomes U+FFFD
from_utf8_lossy(bytes) ==
    IF bytes \in InvalidUtf8 THEN "stray bytes U+FFFD" ELSE bytes

\* line 549, glfw_extensions.offset(n as isize): the position, counted from
\* the start of GLFW's array, the pointer is moved to
offset(position, n) == position + n

\* line 546, *glfw_extensions: what the pointer at position may yield;
\* Err stands for the crash
read_glfw_extension(array, position) ==
    IF position + 1 \in DOMAIN array
    THEN {Ok(array[position + 1])}
    ELSE {Err} \cup {Ok(b) : b \in StrayBytes}

\* lines 536-543: GLFW has reported its array and count
ExtInit ==
    /\ pc = "build_extensions"
    /\ extensions_call \in
          {Some([glfw_extensions |-> a,
                 glfw_extension_count |-> Len(a),
                 n |-> 1,
                 position |-> 0,
                 reads |-> <<>>,
                 required_extensions |-> <<>>]) :
             a \in SeqsUpTo(GlfwExtensionNames, MaxGlfwExtensions)}
    /\ device = None
    /\ result = None
    /\ handles = {}
    /\ events = <<>>
    /\ failed = {}
    /\ panic_message = ""
    /\ should_close = 0
    /\ physical_devices = <<>>
    /\ next_device = 1
    /\ locals = None
    /\ verdicts = <<>>
    /\ selected_physical_device = None
    /\ last_scan = None
    /\ indices = None
    /\ VK_DEVICE = None
    /\ device_presentation_queue = None

\* lines 545-550: one iteration of the loop over 1..=glfw_extension_count
ReadGlfwExtension ==
    /\ pc = "build_extensions"
    /\ LET c == unwrap(extensions_call)
       IN /\ c.n <= c.glfw_extension_count
          /\ \E current_string \in read_glfw_extension(c.glfw_extensions, c.position) :
               IF is_ok(current_string)
               THEN /\ extensions_call' =
                          Some([c EXCEPT
                                  !.reads = Append(@, c.position),
                                  !.required_extensions =
                                      Append(@, from_utf8_lossy(unwrap(current_string))),
                                  !.position = offset(c.position, c.n),
                                  !.n = c.n + 1])
                    /\ UNCHANGED <<pc, panic_message>>
               ELSE /\ extensions_call' =
                          Some([c EXCEPT !.reads = Append(@, c.position)])
                    /\ pc' = "crashed"
                    /\ panic_message' = "crashed reading past the end of the array"
    /\ UNCHANGED <<handles, events, failed, should_close, device, result>>
    /\ UNCHANGED <<selection, later>>

\* lines 552-555: the loop is over, VK_EXT_debug_utils is pushed and the
\* list returned
ReturnRequiredExtensions ==
    /\ pc = "build_extensions"
    /\ LET c == unwrap(extensions_call)
       IN /\ c.n > c.glfw_extension_count
          /\ extensions_call' =
                Some([c EXCEPT !.required_extensions = Append(@, "VK_EXT_debug_utils")])
    /\ pc' = "build_extensions_return"
    /\ UNCHANGED <<handles, events, failed, panic_message, should_close, device, result>>
    /\ UNCHANGED <<selection, later>>

ExtNext ==
    \/ ReadGlfwExtension
    \/ ReturnRequiredExtensions

ExtSpec == ExtInit /\ [][ExtNext]_vars

\* C11 as stated: build_extensions reads array positions 0..n-1 once each
\* and in order, never a position >= n, and returns exactly the n names
\* GLFW reported followed by "VK_EXT_debug_utils".
C11_BuildExtensions ==
    is_some(extensions_call) =>
        LET c == unwrap(extensions_call)
        IN /\ \A i \in DOMAIN c.reads :
                c.reads[i] = i - 1 /\ c.reads[i] < c.glfw_extension_count
           /\ pc = "build_extensions_return" =>
                c.required_extensions = c.glfw_extensions \o <<"VK_EXT_debug_utils">>

====
